---- MODULE Spec2Model ----
(***************************************************************************)
(* Model of the chunked model-file import of Clarity's web UI:             *)
(*   web-ui/src/stores/model-store.ts  (importModel, checkStorageQuota)    *)
(*   web-ui/src/lib/storage.ts         (modelStorage: the IndexedDB layer) *)
(*   lib/constants                     (KNOWN_MODEL_HASHES, limits)        *)
(*                                                                         *)
(* Byte quantities are JavaScript numbers: exact integers far beyond 32    *)
(* bits (15 GiB = 2^33.9).  A quantity n is therefore held as the pair     *)
(* [mib, b] with n = mib * 2^20 + b and 0 <= b < 2^20, and the arithmetic  *)
(* of the code is done on these pairs, so that the limits of the source    *)
(* (100 MiB, 15 GiB, 2 GiB, 16 MiB) appear with their real values.         *)
(*                                                                         *)
(* A Blob is a sequence of segments [src, from, to): a reference to the    *)
(* bytes from..to-1 of the byte stream src, which is what a browser's      *)
(* File.slice returns.  Two blobs hold the same bytes when their segment   *)
(* lists, with adjacent contiguous segments merged, are equal.             *)
(***************************************************************************)
EXTENDS Integers, Sequences, FiniteSets, TLC

VARIABLES
    modelStatus,   \* the zustand store's modelStatus object
    chunkStore,    \* IndexedDB object store 'chunkStore': offset -> Blob
    sess,          \* per importModel call: its locals and position
    imports,       \* number of importModel calls made so far
    faults,        \* number of storage operations that have failed so far
    completions,   \* history: the file and the digest of each completed import
    modelEntry,    \* IndexedDB object store 'modelStore', key 'model'
    reset,         \* the resetModel call: its position, outcome and count
    ui,            \* React state of App and of the ModelImport it renders
    ollama         \* the Ollama store's ollamaStatus and its requests in flight

vars == <<modelStatus, chunkStore, sess, imports, faults, completions,
          modelEntry, reset, ui, ollama>>

----------------------------------------------------------------------------
\* Bounds of the model.

\* importModel calls per behaviour
MaxImports == 3
\* storage operations that may fail per behaviour
MaxFaults == 1
\* resetModel calls per behaviour
MaxResets == 2
MaxTests == 2

----------------------------------------------------------------------------
\* Optional values (a field or variable that may be undefined).

Undefined == [def |-> FALSE]
Def(x) == [def |-> TRUE, val |-> x]
\* a ?? d
Nullish(a, d) == IF a.def THEN a.val ELSE d

----------------------------------------------------------------------------
\* Byte arithmetic on [mib, b] pairs.

MiB == 1024 * 1024
Bytes(m, r) == [mib |-> m, b |-> r]
Zero == Bytes(0, 0)
BAdd(x, y) ==
    LET s == x.b + y.b
    IN  IF s >= MiB THEN Bytes(x.mib + y.mib + 1, s - MiB)
                    ELSE Bytes(x.mib + y.mib, s)
BSub(x, y) ==
    LET d == x.b - y.b
    IN  IF d < 0 THEN Bytes(x.mib - y.mib - 1, d + MiB)
                 ELSE Bytes(x.mib - y.mib, d)
BLess(x, y) == x.mib < y.mib \/ (x.mib = y.mib /\ x.b < y.b)
BLeq(x, y) == ~BLess(y, x)
BMin(x, y) == IF BLess(y, x) THEN y ELSE x
BMax(x, y) == IF BLess(x, y) THEN y ELSE x
\* Math.ceil in place of Math.floor
CeilGiB(x) == (x.mib + 1023 + (IF x.b > 0 THEN 1 ELSE 0)) \div 1024

\* Math.floor(x / (1024 * 1024 * 1024))
FloorGiB(x) == x.mib \div 1024

----------------------------------------------------------------------------
\* Constants of the source.

CHUNK_SIZE == Bytes(16, 0)
MIN_SIZE == Bytes(100, 0)
MAX_SIZE == Bytes(15 * 1024, 0)
EXPECTED_EXTENSION == <<".", "g", "g", "u", "f">>
QUOTA_MARGIN == Bytes(2 * 1024, 0)

INVALID_FILE_TYPE == "Please select a valid GGUF model file (.gguf extension)"
FILE_TOO_SMALL == "File too small. Please select a valid model file."
FILE_TOO_LARGE == "File size too large. Please select a smaller model file."
STORAGE_QUOTA_EXCEEDED == "Not enough storage space. Please free up space and try again."

\* An Error's message; the quota message carries the computed figure:
\* `${STORAGE_QUOTA_EXCEEDED} (Available: ${availableGB}GB)`.
Message(text) == [text |-> text, availableGB |-> Undefined]
QuotaMessage(gb) == [text |-> STORAGE_QUOTA_EXCEEDED, availableGB |-> Def(gb)]

----------------------------------------------------------------------------
\* Strings are sequences of characters.

\* String.prototype.endsWith
EndsWith(s, suffix) ==
    /\ Len(s) >= Len(suffix)
    /\ SubSeq(s, Len(s) - Len(suffix) + 1, Len(s)) = suffix

----------------------------------------------------------------------------
\* Blobs.

Segment(src, from, to) == [src |-> src, from |-> from, to |-> to]

\* the Blob a File is: all of its byte stream
FileBlob(file) ==
    IF file.size = Zero THEN <<>>
    ELSE <<Segment(file.content, Zero, file.size)>>

\* Blob.size
RECURSIVE BlobSize(_)
BlobSize(blob) ==
    IF blob = <<>> THEN Zero
    ELSE BAdd(BSub(Head(blob).to, Head(blob).from), BlobSize(Tail(blob)))

\* file.slice(start, end), for 0 <= start: both ends are clamped to the size
Slice(file, start, end) ==
    LET from == BMin(start, file.size)
        to   == BMin(BMax(end, from), file.size)
    IN  IF from = to THEN <<>> ELSE <<Segment(file.content, from, to)>>

\* new Blob(parts): the parts' bytes, one after the other
RECURSIVE NewBlob(_)
NewBlob(parts) ==
    IF parts = <<>> THEN <<>> ELSE Head(parts) \o NewBlob(Tail(parts))

\* blob.arrayBuffer(): the bytes themselves.  Segments that continue one
\* another in the same stream are one run of bytes.
RECURSIVE ArrayBuffer(_)
ArrayBuffer(blob) ==
    IF Len(blob) <= 1 THEN blob
    ELSE LET rest == ArrayBuffer(Tail(blob))
             a == Head(blob)
             c == Head(rest)
         IN  IF a.src = c.src /\ a.to = c.from
             THEN <<Segment(a.src, a.from, c.to)>> \o Tail(rest)
             ELSE <<a>> \o rest

\* crypto.subtle.digest('SHA-256', buffer), hex-encoded: a collision-free
\* function of the bytes.
SHA256(buffer) == [sha256 |-> buffer]

\* 'e3b0c44298fc1c149afbf4c8996fb92427ae41e4649b934ca495991b7852b855' is the
\* SHA-256 of the empty byte string.
KNOWN_MODEL_HASHES ==
    [h \in {SHA256(<<>>)} |->
        [name |-> "test-model.gguf", size |-> "~1KB", source |-> "Test Model"]]

----------------------------------------------------------------------------
\* modelStorage: the IndexedDB layer.

EmptyStore == [k \in {} |-> <<>>]

\* the store is not cleared
clearChunksKeeps(store) == store

\* db.clear(CHUNK_STORE_NAME)
clearChunks(store) == EmptyStore

\* not the code: every chunk is put under the key 0
storeModelChunkAtZero(store, chunk, offset) ==
    [k \in DOMAIN store \cup {Zero} |-> IF k = Zero THEN chunk ELSE store[k]]

\* db.put(CHUNK_STORE_NAME, chunk, offset): insert or replace
storeModelChunk(store, chunk, offset) ==
    [k \in DOMAIN store \cup {offset} |->
        IF k = offset THEN chunk ELSE store[k]]

\* IndexedDB returns records in ascending key order.
RECURSIVE KeyOrder(_)
KeyOrder(keys) ==
    IF keys = {} THEN <<>>
    ELSE LET least == CHOOSE k \in keys : \A j \in keys : BLeq(k, j)
         IN  <<least>> \o KeyOrder(keys \ {least})

\* the records in descending key order
getAllDescending(store) ==
    LET order == KeyOrder(DOMAIN store)
    IN  [i \in 1..Len(order) |-> store[order[Len(order) + 1 - i]]]

\* db.getAll(CHUNK_STORE_NAME)
getAll(store) ==
    LET order == KeyOrder(DOMAIN store)
    IN  [i \in 1..Len(order) |-> store[order[i]]]

calculateSHA256FromChunks(store) ==
    SHA256(ArrayBuffer(NewBlob(getAll(store))))

----------------------------------------------------------------------------
\* The platform's storage estimate, as importModel's quota check meets it.

GiB(n) == Bytes(n * 1024, 0)

NoApi == [kind |-> "noapi", usage |-> Undefined, quota |-> Undefined]
Rejects == [kind |-> "rejects", usage |-> Undefined, quota |-> Undefined]
Estimate(usage, quota) == [kind |-> "estimate", usage |-> usage, quota |-> quota]

Platforms ==
    { NoApi, Rejects,
      Estimate(Def(GiB(1)), Def(GiB(3))),                    \* 2 GiB free
      Estimate(Def(GiB(1)), Def(BAdd(GiB(3), Bytes(0, 1)))), \* 2 GiB + 1 free
      Estimate(Def(GiB(9)), Def(GiB(10))),                   \* 1 GiB free
      Estimate(Def(GiB(5)), Def(Bytes(4 * 1024 + 512, 0))),  \* usage > quota
      Estimate(Def(Bytes(0, 123456)), Def(GiB(10))),
      Estimate(Def(GiB(1)), Def(Bytes(3 * 1024 + 50, 0))),   \* 2 GiB + 50 MiB free
      Estimate(Undefined, Def(GiB(50))),
      Estimate(Def(Zero), Undefined) }

\* modelStorage.getStorageQuota: the estimate, {0, 0} without the API; the
\* promise rejects when estimate() does.
getStorageQuota(plat) ==
    IF plat.kind = "estimate"
    THEN [threw |-> FALSE, usage |-> plat.usage, quota |-> plat.quota]
    ELSE IF plat.kind = "rejects"
    THEN [threw |-> TRUE, usage |-> Undefined, quota |-> Undefined]
    ELSE [threw |-> FALSE, usage |-> Def(Zero), quota |-> Def(Zero)]

\* hasQuota by >= in place of >
checkStorageQuotaInclusive(plat) ==
    LET r == getStorageQuota(plat)
    IN  IF r.threw
        THEN [hasQuota |-> FALSE, usage |-> Zero, quota |-> Zero]
        ELSE [hasQuota |-> BLeq(BAdd(Nullish(r.usage, Zero), QUOTA_MARGIN),
                                Nullish(r.quota, Zero)),
              usage |-> Nullish(r.usage, Zero),
              quota |-> Nullish(r.quota, Zero)]

\* the catch block lets the import through
checkStorageQuotaFailsOpen(plat) ==
    LET r == getStorageQuota(plat)
    IN  IF r.threw
        THEN [hasQuota |-> TRUE, usage |-> Zero, quota |-> Zero]
        ELSE [hasQuota |-> BLess(BAdd(Nullish(r.usage, Zero), QUOTA_MARGIN),
                                 Nullish(r.quota, Zero)),
              usage |-> Nullish(r.usage, Zero),
              quota |-> Nullish(r.quota, Zero)]

checkStorageQuota(plat) ==
    LET r == getStorageQuota(plat)
    IN  IF r.threw
        THEN [hasQuota |-> FALSE, usage |-> Zero, quota |-> Zero]
        ELSE [hasQuota |-> BLess(BAdd(Nullish(r.usage, Zero), QUOTA_MARGIN),
                                 Nullish(r.quota, Zero)),
              usage |-> Nullish(r.usage, Zero),
              quota |-> Nullish(r.quota, Zero)]

----------------------------------------------------------------------------
\* The files offered to importModel.

File(name, size, content) == [name |-> name, size |-> size, content |-> content]

NameA == <<"a", ".", "g", "g", "u", "f">>
NameB == <<"b", ".", "g", "g", "u", "f">>
NameTxt == <<"m", "o", "d", "e", "l", ".", "t", "x", "t">>

Files ==
    { File(NameA, Bytes(100, 0), "A"),
      File(NameB, Bytes(100, 0), "A"),       \* the same bytes under another name
      File(NameA, Bytes(112, 0), "B"),       \* a multiple of the chunk size
      File(NameA, Bytes(128, 1), "A"),       \* a last chunk of one byte
      File(NameTxt, Bytes(100, 0), "A"),
      File(NameA, Bytes(99, MiB - 1), "A"),
      File(NameA, Bytes(15 * 1024, 1), "B") }

----------------------------------------------------------------------------
\* The model store (zustand).

\* importProgress: the number scale * num / den
Percent(k) == [scale |-> k, num |-> Bytes(0, 1), den |-> Bytes(0, 1)]
\* (offset / file.size) * 80
\* not the code: the chunks are scaled to 90, not to 80
ChunkProgressOf90(offset, size) == [scale |-> 90, num |-> offset, den |-> size]

\* not the code: the chunks are scaled to 100, not to 80
ChunkProgressOf100(offset, size) == [scale |-> 100, num |-> offset, den |-> size]

ChunkProgress(offset, size) ==
    IF offset = size THEN Percent(80)
    ELSE [scale |-> 80, num |-> offset, den |-> size]

InitialStatus ==
    [isImported |-> FALSE, isLoaded |-> FALSE,
     fileName |-> Undefined, fileSize |-> Undefined, sha256 |-> Undefined,
     importProgress |-> Percent(0), error |-> Undefined,
     verificationStatus |-> "unverified"]

\* modelStatus: { ...state.modelStatus, ...status }
setModelStatus(status, partial) ==
    [k \in DOMAIN status |->
        IF k \in DOMAIN partial THEN partial[k] ELSE status[k]]

\* Step 1 without the extension test
ValidationErrorAnyName(file) ==
    IF BLess(file.size, MIN_SIZE) THEN Def(Message(FILE_TOO_SMALL))
    ELSE IF BLess(MAX_SIZE, file.size) THEN Def(Message(FILE_TOO_LARGE))
    ELSE Undefined

\* Step 1 with file.size >= MAX_SIZE rejected
ValidationErrorBelowMax(file) ==
    IF ~EndsWith(file.name, EXPECTED_EXTENSION) THEN Def(Message(INVALID_FILE_TYPE))
    ELSE IF BLess(file.size, MIN_SIZE) THEN Def(Message(FILE_TOO_SMALL))
    ELSE IF BLeq(MAX_SIZE, file.size) THEN Def(Message(FILE_TOO_LARGE))
    ELSE Undefined

\* Step 1 of importModel: the message of the Error thrown, if any
ValidationError(file) ==
    IF ~EndsWith(file.name, EXPECTED_EXTENSION) THEN Def(Message(INVALID_FILE_TYPE))
    ELSE IF BLess(file.size, MIN_SIZE) THEN Def(Message(FILE_TOO_SMALL))
    ELSE IF BLess(MAX_SIZE, file.size) THEN Def(Message(FILE_TOO_LARGE))
    ELSE Undefined

\* not the code: the catch block leaves importProgress as it was
CatchStatusKeepsProgress(status, message) ==
    setModelStatus(status,
        [error |-> Def(message), verificationStatus |-> "failed"])

\* not the code: the catch block also drops the record of the last import
CatchStatusErases(status, message) ==
    setModelStatus(status,
        [error |-> Def(message), importProgress |-> Percent(0),
         verificationStatus |-> "failed", isImported |-> FALSE,
         fileName |-> Undefined, fileSize |-> Undefined, sha256 |-> Undefined])

\* the catch block of importModel
CatchStatus(status, message) ==
    setModelStatus(status,
        [error |-> Def(message), importProgress |-> Percent(0),
         verificationStatus |-> "failed"])

\* Step 5 with an unknown digest reported as a failure
ClassifyStrict(sha256) ==
    IF sha256 \in DOMAIN KNOWN_MODEL_HASHES THEN "verified" ELSE "failed"

\* Step 5 with the lookup result ignored
ClassifyNever(sha256) == "unverified"

\* Step 5 of importModel
Classify(sha256) ==
    IF sha256 \in DOMAIN KNOWN_MODEL_HASHES THEN "verified" ELSE "unverified"

----------------------------------------------------------------------------
\* importModel calls.

Sessions == {1, 2}

IdleSession ==
    [pc |-> "idle", file |-> Undefined, offset |-> Zero, chunk |-> <<>>,
     quotaResult |-> Undefined, plat |-> Undefined, sha256 |-> Undefined,
     failedAt |-> "none", ops |-> <<>>, storeAtStart |-> EmptyStore,
     promise |-> "pending", progress |-> <<>>, statusAtStart |-> InitialStatus,
     prev |-> "none", toast |-> Undefined]

IMPORT_UNVERIFIED == "Model imported. Verification status unknown."

\* the toast of handleImport after `await importModel(selectedFile)`; status
\* is the modelStatus of the render whose handleImport was called
SuccessToast(status) ==
    LET isVerified == status.verificationStatus = "verified"
        knownModel ==
            IF status.sha256.def /\ status.sha256.val \in DOMAIN KNOWN_MODEL_HASHES
            THEN Def(KNOWN_MODEL_HASHES[status.sha256.val]) ELSE Undefined
    IN  IF isVerified
        THEN [title |-> "Model imported successfully!",
              description |-> "Model verified: ",
              model |-> IF knownModel.def THEN Def(knownModel.val.name)
                        ELSE Def("Unknown model")]
        ELSE [title |-> "Model imported successfully!",
              description |-> IMPORT_UNVERIFIED, model |-> Undefined]

\* the toast of handleImport's catch
FailureToast(message) ==
    [title |-> "Import failed", description |-> message, model |-> Undefined]

\* not the code: the catch block does not rethrow
ThrownSwallowed(call, stage, caught) ==
    [call EXCEPT !.pc = "failed", !.failedAt = stage, !.promise = "fulfilled",
                 !.progress = Append(@, caught.importProgress),
                 !.toast = Def(FailureToast(caught.error.val))]

\* the call after `throw error` at the end of the catch block, which has set
\* the status to caught: its promise rejects
Thrown(call, stage, caught) ==
    [call EXCEPT !.pc = "failed", !.failedAt = stage, !.promise = "rejected",
                 !.progress = Append(@, caught.importProgress),
                 !.toast = Def(FailureToast(caught.error.val))]

IdleReset ==
    [pc |-> "idle", settled |-> "none", calls |-> 0, swallowed |-> 0,
     interrupts |-> 0]

\* App before its first effect, on a first visit: onboarding not completed,
\* ModelImport not rendered
InitialUi ==
    [isOnboardingComplete |-> FALSE, isModelImported |-> FALSE,
     deps |-> Undefined, captured |-> Undefined, selectedFile |-> Undefined,
     last |-> Undefined]

Running(s) == sess[s].pc \notin {"idle", "completed", "failed"}

DEFAULT_SERVER_URL == "http://localhost:11434"
DEFAULT_MODEL_NAME == "gemma3n:latest"

\* the ollamaStatus a new store starts with, and resetOllamaMode sets
InitialOllamaStatus ==
    [isOllamaMode |-> FALSE, serverUrl |-> DEFAULT_SERVER_URL,
     modelName |-> DEFAULT_MODEL_NAME, isConnected |-> FALSE,
     isModelAvailable |-> FALSE, lastError |-> Undefined,
     lastTestTime |-> Undefined]

\* the Ollama store after create(): no ollamaAPI, no request in flight.
\* tests counts the calls of testConnection and testModel, settled those
\* that have returned (the clock lastTestTime reads), and passed holds the
\* server URLs a testConnection has found connected since the configuration
\* was last set.
InitialOllama ==
    [status |-> InitialOllamaStatus, ollamaAPI |-> Undefined, requests |-> {},
     tests |-> 0, settled |-> 0, passed |-> {}]

\* ModelImport is rendered: captured is the modelStatus of its first render
Mounted == ui.captured.def

\* App renders u: ModelImport is there when onboarding is complete and no
\* model is imported; a ModelImport that was not there before is a new
\* instance, whose first render sees status and no selected file
Render(u, status) ==
    IF u.isOnboardingComplete /\ ~u.isModelImported
    THEN IF ui.captured.def THEN u
         ELSE [u EXCEPT !.captured = Def(status), !.selectedFile = Undefined]
    ELSE [u EXCEPT !.captured = Undefined, !.selectedFile = Undefined]

\* onImportSuccess, which handleImport calls when importModel has fulfilled
handleModelImportSuccess(u) == [u EXCEPT !.isModelImported = TRUE]

Init ==
    /\ modelStatus = InitialStatus
    /\ chunkStore = EmptyStore
    /\ sess = [s \in Sessions |-> IdleSession]
    /\ imports = 0
    /\ faults = 0
    /\ completions = {}
    /\ modelEntry = Undefined
    /\ reset = IdleReset
    /\ ui = InitialUi
    /\ ollama = InitialOllama

\* not the code: a valid file goes to the write phase unchecked
ValidatedSkipsQuota(call) == [call EXCEPT !.pc = "clear"]

\* the call whose file passed validation: it awaits checkStorageQuota
Validated(call) == [call EXCEPT !.pc = "quota"]

\* importModel(file) up to its first await: the status reset and Step 1.
StartImport(s, file) ==
    /\ ~Running(s)
    /\ imports < MaxImports
    /\ imports' = imports + 1
    /\ LET cleared == setModelStatus(modelStatus,
                        [importProgress |-> Percent(0), error |-> Undefined,
                         verificationStatus |-> "unverified"])
           err == ValidationError(file)
           call == [IdleSession EXCEPT !.file = Def(file),
                                       !.storeAtStart = chunkStore,
                                       !.statusAtStart = modelStatus,
                                       !.prev = sess[s].failedAt,
                                       !.progress = <<Percent(0)>>]
       IN  IF err.def
           THEN /\ modelStatus' = CatchStatus(cleared, err.val)
                /\ sess' = [sess EXCEPT ![s] =
                       Thrown(call, "validate", CatchStatus(cleared, err.val))]
           ELSE /\ modelStatus' = cleared
                /\ sess' = [sess EXCEPT ![s] = Validated(call)]
    /\ UNCHANGED <<ollama, ui, modelEntry, reset, chunkStore, faults, completions>>

\* Step 2: checkStorageQuota resolves.
QuotaCheck(s, plat) ==
    /\ sess[s].pc = "quota"
    /\ LET r == checkStorageQuota(plat)
           availableGB == FloorGiB(BSub(r.quota, r.usage))
       IN  IF ~r.hasQuota
           THEN /\ modelStatus' = CatchStatus(modelStatus, QuotaMessage(availableGB))
                /\ sess' = [sess EXCEPT ![s] =
                       Thrown([sess[s] EXCEPT !.quotaResult = Def(r),
                                              !.plat = Def(plat)], "quota",
                              CatchStatus(modelStatus, QuotaMessage(availableGB)))]
           ELSE /\ modelStatus' = modelStatus
                /\ sess' = [sess EXCEPT ![s].pc = "clear",
                                        ![s].quotaResult = Def(r),
                                        ![s].plat = Def(plat)]
    /\ UNCHANGED <<ollama, ui, modelEntry, reset, chunkStore, imports, faults, completions>>

\* not the code: the loop ends when less than a whole chunk is left
LoopTestWholeChunks(call) ==
    IF BLeq(BAdd(call.offset, CHUNK_SIZE), call.file.val.size)
    THEN [call EXCEPT !.pc = "put",
                      !.chunk = Slice(call.file.val, call.offset,
                                      BAdd(call.offset, CHUNK_SIZE))]
    ELSE [call EXCEPT !.pc = "hash"]

\* the loop test of Step 3 and what follows it
LoopTest(call) ==
    IF BLess(call.offset, call.file.val.size)
    THEN [call EXCEPT !.pc = "put",
                      !.chunk = Slice(call.file.val, call.offset,
                                      BAdd(call.offset, CHUNK_SIZE))]
    ELSE [call EXCEPT !.pc = "hash"]

\* not the code: the write loop starts without clearing the store
ClearChunksSkipped(s) ==
    /\ sess[s].pc = "clear"
    /\ chunkStore' = chunkStore
    /\ sess' = [sess EXCEPT ![s] =
                   LoopTest([sess[s] EXCEPT !.offset = Zero,
                                            !.quotaResult = Undefined,
                                            !.plat = Undefined,
                                            !.ops = Append(@, [op |-> "clear"])])]
    /\ UNCHANGED <<ollama, ui, modelEntry, reset, modelStatus, imports, faults, completions>>

\* Step 3: modelStorage.clearChunks(), then offset = 0 and the first loop test.
\* The quota check's results are not read again.
ClearChunks(s) ==
    /\ sess[s].pc = "clear"
    /\ chunkStore' = clearChunks(chunkStore)
    /\ sess' = [sess EXCEPT ![s] =
                   LoopTest([sess[s] EXCEPT !.offset = Zero,
                                            !.quotaResult = Undefined,
                                            !.plat = Undefined,
                                            !.ops = Append(@, [op |-> "clear"])])]
    /\ UNCHANGED <<ollama, ui, modelEntry, reset, modelStatus, imports, faults, completions>>

\* modelStorage.storeModelChunk(chunk, offset)
PutChunk(s) ==
    /\ sess[s].pc = "put"
    /\ chunkStore' = storeModelChunk(chunkStore, sess[s].chunk, sess[s].offset)
    /\ sess' = [sess EXCEPT ![s].pc = "afterPut",
                            ![s].ops = Append(@, [op |-> "put",
                                                  offset |-> sess[s].offset,
                                                  size |-> BlobSize(sess[s].chunk)])]
    /\ UNCHANGED <<ollama, ui, modelEntry, reset, modelStatus, imports, faults, completions>>

\* offset += CHUNK_SIZE
NextOffsetByChunkSize(offset, chunk) == BAdd(offset, CHUNK_SIZE)

\* offset += chunk.size
NextOffset(offset, chunk) == BAdd(offset, BlobSize(chunk))

\* the rest of the loop body, and the next loop test
AfterPut(s) ==
    /\ sess[s].pc = "afterPut"
    /\ \E offset \in {NextOffset(sess[s].offset, sess[s].chunk)} :
       \E value \in {ChunkProgress(offset, sess[s].file.val.size)} :
           /\ modelStatus' = setModelStatus(modelStatus, [importProgress |-> value])
           /\ sess' = [sess EXCEPT ![s] =
                  LoopTest([sess[s] EXCEPT !.offset = offset,
                                           !.progress = Append(@, value)])]
    /\ UNCHANGED <<ollama, ui, modelEntry, reset, chunkStore, imports, faults, completions>>

\* Step 4: modelStorage.calculateSHA256FromChunks() reads the store
HashChunks(s) ==
    /\ sess[s].pc = "hash"
    /\ \E sha256 \in {calculateSHA256FromChunks(chunkStore)} :
           sess' = [sess EXCEPT ![s].pc = "finish", ![s].sha256 = Def(sha256)]
    /\ UNCHANGED <<ollama, ui, modelEntry, reset, modelStatus, chunkStore, imports, faults, completions>>

\* Steps 4 to 6 after the digest: progress 90, the lookup, the final status
Finish(s) ==
    /\ sess[s].pc = "finish"
    /\ LET sha256 == sess[s].sha256.val
           file == sess[s].file.val
           at90 == setModelStatus(modelStatus, [importProgress |-> Percent(90)])
       IN  /\ modelStatus' = setModelStatus(at90,
                  [isImported |-> TRUE, isLoaded |-> TRUE,
                   fileName |-> Def(file.name), fileSize |-> Def(file.size),
                   sha256 |-> Def(sha256), importProgress |-> Percent(100),
                   error |-> Undefined,
                   verificationStatus |-> Classify(sha256)])
           /\ completions' = completions \cup {[file |-> file, sha256 |-> sha256]}
    /\ sess' = [sess EXCEPT ![s].pc = "completed",
                            ![s].promise = "fulfilled",
                            ![s].progress = @ \o <<Percent(90), Percent(100)>>,
                            ![s].toast = Def(SuccessToast(sess[s].statusAtStart))]
    /\ ui' = IF Mounted THEN Render(handleModelImportSuccess(ui), modelStatus')
             ELSE ui
    /\ UNCHANGED <<ollama, modelEntry, reset, chunkStore, imports, faults>>

\* A storage operation (clear, put, getAll) fails: IndexedDB rejects with a
\* DOMException, which the catch block reports by its message.
STORAGE_FAILURE == "The transaction was aborted"
StorageFails(s) ==
    /\ sess[s].pc \in {"clear", "put", "hash"}
    /\ faults < MaxFaults
    /\ faults' = faults + 1
    /\ modelStatus' = CatchStatus(modelStatus, Message(STORAGE_FAILURE))
    /\ sess' = [sess EXCEPT ![s] =
           Thrown(sess[s], sess[s].pc,
                  CatchStatus(modelStatus, Message(STORAGE_FAILURE)))]
    /\ UNCHANGED <<ollama, ui, modelEntry, reset, chunkStore, imports, completions>>

Step(s, files, plats) ==
    \/ \E file \in files : StartImport(s, file)
    \/ \E plat \in plats : QuotaCheck(s, plat)
    \/ ClearChunks(s)
    \/ PutChunk(s)
    \/ AfterPut(s)
    \/ HashChunks(s)
    \/ Finish(s)
    \/ StorageFails(s)

\* One importModel call at a time, as the import dialog makes them.
Next == Step(1, Files, Platforms)

Spec == Init /\ [][Next]_vars

\* Two importModel calls that overlap: the store itself holds no lock, so
\* the calls interleave at their awaits.
ConcurrentFiles ==
    { File(NameA, Bytes(100, 0), "A"),
      File(NameB, Bytes(112, 0), "B"),
      File(NameTxt, Bytes(100, 0), "A") }
ConcurrentPlatforms == {NoApi, Estimate(Def(Bytes(0, 123456)), Def(GiB(10)))}

NextConcurrent ==
    \E s \in Sessions :
        \/ \E file \in ConcurrentFiles : sess[s].pc = "idle" /\ StartImport(s, file)
        \/ \E plat \in ConcurrentPlatforms : QuotaCheck(s, plat)
        \/ ClearChunks(s)
        \/ PutChunk(s)
        \/ AfterPut(s)
        \/ HashChunks(s)
        \/ Finish(s)

SpecConcurrent == Init /\ [][NextConcurrent]_vars

----------------------------------------------------------------------------
\* resetModel: deleteModel, whose failure is swallowed, then the status reset.

deleteModel(entry) == Undefined

\* modelStorage.storeModel(file, metadata): the entry under the key 'model'
storeModel(file, metadata) == Def([file |-> file, metadata |-> metadata])

\* modelStorage.getModel()
getModel(entry) == entry

\* verifyModel(), getModel not throwing: the stored entry's digest against
\* the status's
verifyModel(status, entry) ==
    IF ~status.isImported THEN FALSE
    ELSE LET storedModel == getModel(entry)
         IN  IF ~storedModel.def THEN FALSE
             ELSE Def(storedModel.val.metadata.sha256) = status.sha256

ResetStatus ==
    [isImported |-> FALSE, isLoaded |-> FALSE, importProgress |-> Percent(0),
     verificationStatus |-> "unverified", fileName |-> Undefined,
     fileSize |-> Undefined, sha256 |-> Undefined, error |-> Undefined]

\* not the code: a failed deleteModel leaves the status as it was
AfterDeleteModelKeeps(status, threw) == IF threw THEN status ELSE ResetStatus

\* the status after `await modelStorage.deleteModel()` inside try/catch
AfterDeleteModel(status, threw) == ResetStatus

\* importModel call 1 has finished a chunk write and has another to make
BetweenWrites ==
    /\ sess[1].pc = "afterPut"
    /\ BLess(NextOffset(sess[1].offset, sess[1].chunk), sess[1].file.val.size)

\* the call of resetModel, awaiting deleteModel; interrupts is the number of
\* the importModel call it was made between two chunk writes of
Deleting(r) ==
    [r EXCEPT !.pc = "deleting", !.settled = "pending", !.calls = @ + 1,
              !.interrupts = IF BetweenWrites THEN imports ELSE @]

\* resetModel() up to its await of deleteModel
ResetStart ==
    /\ reset.pc = "idle"
    /\ reset.calls < MaxResets
    /\ reset' = Deleting(reset)
    /\ UNCHANGED <<ollama, modelStatus, chunkStore, sess, imports, faults, completions,
                   modelEntry, ui>>

\* deleteModel settles, by deleting the 'model' key or by throwing, and the
\* status is set to its initial values; the promise of resetModel fulfils
ResetDone(threw) ==
    /\ reset.pc = "deleting"
    /\ threw => faults < MaxFaults
    /\ faults' = IF threw THEN faults + 1 ELSE faults
    /\ modelEntry' = IF threw THEN modelEntry ELSE deleteModel(modelEntry)
    /\ modelStatus' = AfterDeleteModel(modelStatus, threw)
    /\ reset' = [reset EXCEPT !.pc = "idle", !.settled = "fulfilled",
                              !.swallowed = IF threw THEN @ + 1 ELSE @]
    /\ UNCHANGED <<ollama, chunkStore, sess, imports, completions, ui>>

\* importModel and resetModel calls as the application makes them: nothing
\* orders a reset against an import in progress
NextReset ==
    \/ Step(1, ConcurrentFiles, ConcurrentPlatforms)
    \/ ResetStart
    \/ \E threw \in BOOLEAN : ResetDone(threw)

SpecReset == Init /\ [][NextReset]_vars

\* The import dialog's calls, every started call running to its end: the
\* promises a call awaits settle, and the event loop runs its continuation.
FairFiles ==
    { File(NameA, Bytes(100, 0), "A"),
      File(NameB, Bytes(128, 1), "B") }

NextFair == Step(1, FairFiles, ConcurrentPlatforms)

\* what a call past its quota check does next, storage not failing
Continue(s) ==
    \/ ClearChunks(s)
    \/ PutChunk(s)
    \/ AfterPut(s)
    \/ HashChunks(s)
    \/ Finish(s)

\* ENABLED <<Continue(s)>>_vars: each of its steps has the position of the
\* call as its only guard, and moves it
ContinueEnabled(s) == sess[s].pc \in {"clear", "put", "afterPut", "hash", "finish"}

\* WF_vars(Continue(1)), its ENABLED written out
ContinueFair == []<>(~ContinueEnabled(1)) \/ []<><<Continue(1)>>_vars

\* WF_vars of the quota check, whose only guard is the call's position:
\* navigator.storage.estimate() settles
QuotaFair ==
    \/ []<>(sess[1].pc # "quota")
    \/ []<><<\E plat \in ConcurrentPlatforms : QuotaCheck(1, plat)>>_vars

SpecFair == Init /\ [][NextFair]_vars /\ QuotaFair /\ ContinueFair

----------------------------------------------------------------------------
\* App and the ModelImport component it renders while no model is ready.

\* the dependencies of App's effect
Deps(status) ==
    [isImported |-> status.isImported,
     verificationStatus |-> status.verificationStatus]

\* every pending effect of App has run: user events come after it
Flushed == ui.deps = Def(Deps(modelStatus))

\* not the code: the effect sets the flag but never clears it
AppEffectKeeps ==
    /\ ~Flushed
    /\ LET modelReady == modelStatus.isImported
                             /\ modelStatus.verificationStatus # "failed"
       IN  ui' = Render([ui EXCEPT !.isModelImported = @ \/ modelReady,
                                   !.deps = Def(Deps(modelStatus))], modelStatus)
    /\ UNCHANGED <<ollama, modelStatus, chunkStore, sess, imports, faults, completions,
                   modelEntry, reset>>

\* useEffect(..., [modelStatus.isImported, modelStatus.verificationStatus])
AppEffect ==
    /\ ~Flushed
    /\ LET modelReady == modelStatus.isImported
                             /\ modelStatus.verificationStatus # "failed"
       IN  ui' = Render([ui EXCEPT !.isModelImported = modelReady,
                                   !.deps = Def(Deps(modelStatus))], modelStatus)
    /\ UNCHANGED <<ollama, modelStatus, chunkStore, sess, imports, faults, completions,
                   modelEntry, reset>>

handleOnboardingComplete ==
    /\ Flushed
    /\ ~ui.isOnboardingComplete
    /\ ui' = Render([ui EXCEPT !.isOnboardingComplete = TRUE], modelStatus)
    /\ UNCHANGED <<ollama, modelStatus, chunkStore, sess, imports, faults, completions,
                   modelEntry, reset>>

\* the Back button of ModelImport, disabled while importing
handleModelImportBack ==
    /\ Flushed
    /\ Mounted
    /\ ~Running(1)
    /\ ui' = Render([ui EXCEPT !.isOnboardingComplete = FALSE], modelStatus)
    /\ UNCHANGED <<ollama, modelStatus, chunkStore, sess, imports, faults, completions,
                   modelEntry, reset>>

\* the reset dialog of the main view: resetModel() is called, not awaited
handleResetOnboarding ==
    /\ Flushed
    /\ ui.isOnboardingComplete
    /\ ui.isModelImported
    /\ reset.pc = "idle"
    /\ reset.calls < MaxResets
    /\ reset' = Deleting(reset)
    /\ ui' = Render([ui EXCEPT !.isOnboardingComplete = FALSE,
                                !.isModelImported = FALSE], modelStatus)
    /\ UNCHANGED <<ollama, modelStatus, chunkStore, sess, imports, faults, completions,
                   modelEntry>>

\* the duplicate check of handleFileSelect, against the modelStatus it closes over
IsDuplicate(status, file) ==
    /\ status.isImported
    /\ status.fileName = Def(file.name)
    /\ status.fileSize = Def(file.size)

\* handleFileSelect(file) of the render that saw status: the selected file after it
handleFileSelect(status, file) ==
    IF ValidationError(file).def THEN Undefined
    ELSE IF IsDuplicate(status, file) THEN Undefined
    ELSE Def(file)

\* a file chosen through via; status is what the handler's check read
Selection(via, status, file) ==
    LET selected == handleFileSelect(status, file)
    IN  [ui EXCEPT !.selectedFile = selected,
                   !.last = Def([via |-> via, file |-> file,
                                 status |-> modelStatus,
                                 selected |-> selected.def])]

\* the file input: handleFileSelect of the current render
handleFileInputChange(file) ==
    /\ Flushed
    /\ Mounted
    /\ ~ui.selectedFile.def
    /\ ui' = Selection("picker", modelStatus, file)
    /\ UNCHANGED <<ollama, modelStatus, chunkStore, sess, imports, faults, completions,
                   modelEntry, reset>>

\* the drop zone: useCallback(..., []) keeps the handleDrop of the first
\* render, which calls the handleFileSelect of the first render
handleDrop(file) ==
    /\ Flushed
    /\ Mounted
    /\ ~ui.selectedFile.def
    /\ ui' = Selection("drop", ui.captured.val, file)
    /\ UNCHANGED <<ollama, modelStatus, chunkStore, sess, imports, faults, completions,
                   modelEntry, reset>>

\* the X button of the selected file, disabled while importing
ClearSelection ==
    /\ Flushed
    /\ Mounted
    /\ ui.selectedFile.def
    /\ ~Running(1)
    /\ ui' = [ui EXCEPT !.selectedFile = Undefined]
    /\ UNCHANGED <<ollama, modelStatus, chunkStore, sess, imports, faults, completions,
                   modelEntry, reset>>

\* the Import button, disabled while importing: importModel(selectedFile)
handleImport ==
    /\ Flushed
    /\ Mounted
    /\ ui.selectedFile.def
    /\ StartImport(1, ui.selectedFile.val)

AppFiles ==
    { File(NameA, Bytes(100, 0), "A"),
      File(NameB, Bytes(100, 0), "B"),
      File(NameA, Bytes(112, 0), "A"),
      File(NameTxt, Bytes(100, 0), "A") }

NextApp ==
    \/ AppEffect
    \/ handleOnboardingComplete
    \/ handleModelImportBack
    \/ handleResetOnboarding
    \/ \E file \in AppFiles : handleFileInputChange(file)
    \/ \E file \in AppFiles : handleDrop(file)
    \/ ClearSelection
    \/ handleImport
    \/ \E plat \in ConcurrentPlatforms : QuotaCheck(1, plat)
    \/ Continue(1)
    \/ \E threw \in BOOLEAN : ResetDone(threw)

SpecApp == Init /\ [][NextApp]_vars

----------------------------------------------------------------------------
\* Validation alone, on files at and around every limit.

NameSuffixOnly == <<".", "g", "g", "u", "f">>
NameUpper == <<"a", ".", "G", "G", "U", "F">>
NameNoDot == <<"g", "g", "u", "f">>
NameTrailing == <<"a", ".", "g", "g", "u", "f", ".", "t", "x", "t">>

BoundaryFiles ==
    { File(name, size, "A") :
        name \in {NameA, NameTxt, NameSuffixOnly, NameUpper, NameNoDot, NameTrailing},
        size \in { Zero, Bytes(99, MiB - 1), Bytes(100, 0), Bytes(100, 1),
                   Bytes(15 * 1024 - 1, MiB - 1), Bytes(15 * 1024, 0),
                   Bytes(15 * 1024, 1), Bytes(16 * 1024, 0) } }

NextValidation == \E file \in BoundaryFiles : StartImport(1, file)

SpecValidation == Init /\ [][NextValidation]_vars

----------------------------------------------------------------------------
\* The Ollama store: the configuration and the two tests of it.

OTHER_SERVER_URL == "http://192.168.1.20:11434"
OTHER_MODEL_NAME == "gemma3n:e2b"
ServerUrls == {DEFAULT_SERVER_URL, OTHER_SERVER_URL}
ModelNames == {DEFAULT_MODEL_NAME, OTHER_MODEL_NAME}

\* what OllamaAPI.testConnection and testModel report when they do not
\* succeed
API_ERROR == "Failed to fetch"

\* new OllamaAPI({ serverUrl, modelName })
OllamaAPI(serverUrl, modelName) == [serverUrl |-> serverUrl, modelName |-> modelName]

setOllamaMode(enabled) ==
    /\ ollama' = [ollama EXCEPT !.status.isOllamaMode = enabled,
                                !.status.lastError = Undefined]
    /\ UNCHANGED <<modelStatus, chunkStore, sess, imports, faults, completions,
                   modelEntry, reset, ui>>

updateConfig(serverUrl, modelName) ==
    /\ ollama' = [ollama EXCEPT !.status.serverUrl = serverUrl,
                                !.status.modelName = modelName,
                                !.status.isConnected = FALSE,
                                !.status.isModelAvailable = FALSE,
                                !.status.lastError = Undefined,
                                !.ollamaAPI = Def(OllamaAPI(serverUrl, modelName)),
                                !.passed = {}]
    /\ UNCHANGED <<modelStatus, chunkStore, sess, imports, faults, completions,
                   modelEntry, reset, ui>>

\* testConnection() or testModel() up to its await: the request is made of
\* the serverUrl and modelName that get() returns at the call
Request(kind) ==
    /\ ollama.tests < MaxTests
    /\ ollama' = [ollama EXCEPT
           !.tests = @ + 1,
           !.requests = @ \cup {[id |-> ollama.tests + 1, kind |-> kind,
                                 api |-> OllamaAPI(ollama.status.serverUrl,
                                                   ollama.status.modelName)]}]
    /\ UNCHANGED <<modelStatus, chunkStore, sess, imports, faults, completions,
                   modelEntry, reset, ui>>

testConnection == Request("testConnection")

testModel == Request("testModel")

\* api.testConnection() settles with { connected, error } and the rest of
\* testConnection runs
TestConnectionSettles(request, connected) ==
    /\ request \in ollama.requests
    /\ request.kind = "testConnection"
    /\ ollama' = [ollama EXCEPT
           !.status.isConnected = connected,
           !.status.lastError = IF connected THEN Undefined ELSE Def(API_ERROR),
           !.status.lastTestTime = Def(ollama.settled + 1),
           !.settled = @ + 1,
           !.requests = @ \ {request},
           !.passed = IF connected THEN @ \cup {request.api.serverUrl} ELSE @]
    /\ UNCHANGED <<modelStatus, chunkStore, sess, imports, faults, completions,
                   modelEntry, reset, ui>>

\* api.testModel() settles with { available, error } and the rest of
\* testModel runs
TestModelSettles(request, available) ==
    /\ request \in ollama.requests
    /\ request.kind = "testModel"
    /\ ollama' = [ollama EXCEPT
           !.status.isModelAvailable = available,
           !.status.lastError = IF available THEN Undefined ELSE Def(API_ERROR),
           !.status.lastTestTime = Def(ollama.settled + 1),
           !.settled = @ + 1,
           !.requests = @ \ {request}]
    /\ UNCHANGED <<modelStatus, chunkStore, sess, imports, faults, completions,
                   modelEntry, reset, ui>>

resetOllamaMode ==
    /\ ollama' = [ollama EXCEPT !.status = InitialOllamaStatus,
                                !.ollamaAPI = Undefined,
                                !.passed = {}]
    /\ UNCHANGED <<modelStatus, chunkStore, sess, imports, faults, completions,
                   modelEntry, reset, ui>>

NextOllama ==
    \/ \E enabled \in BOOLEAN : setOllamaMode(enabled)
    \/ \E serverUrl \in ServerUrls, modelName \in ModelNames :
          updateConfig(serverUrl, modelName)
    \/ testConnection
    \/ testModel
    \/ \E request \in ollama.requests, connected \in BOOLEAN :
          TestConnectionSettles(request, connected)
    \/ \E request \in ollama.requests, available \in BOOLEAN :
          TestModelSettles(request, available)
    \/ resetOllamaMode

SpecOllama == Init /\ [][NextOllama]_vars

----------------------------------------------------------------------------
\* What the claims call an invalid file, a quota failure, free space.

HasGgufSuffix(name) ==
    \E n \in 0..Len(name) :
        name = SubSeq(name, 1, n) \o <<".", "g", "g", "u", "f">>

InvalidFile(file) ==
    \/ ~HasGgufSuffix(file.name)
    \/ BLess(file.size, Bytes(100, 0))
    \/ BLess(Bytes(15360, 0), file.size)

\* quota - usage of an estimate, a missing field counting as 0
FreeOf(plat) ==
    BSub(IF plat.quota.def THEN plat.quota.val ELSE Zero,
         IF plat.usage.def THEN plat.usage.val ELSE Zero)

\* g = floor(x / 1 GiB)
IsFloorGiB(g, x) == BLeq(Bytes(g * 1024, 0), x) /\ BLess(x, Bytes((g + 1) * 1024, 0))

Untouched(s) == sess[s].ops = <<>> /\ chunkStore = sess[s].storeAtStart

\* C1: an import of a file without the .gguf suffix, or smaller than 100 MiB,
\* or larger than 15 GiB, ends Failed at validation, having made no clearChunks
\* and no storeModelChunk call: the chunk store is as it was before the call.
C1_InvalidFileLeavesStore ==
    \A s \in Sessions :
        (sess[s].file.def /\ InvalidFile(sess[s].file.val))
            => /\ sess[s].pc = "failed"
               /\ sess[s].failedAt = "validate"
               /\ modelStatus.verificationStatus = "failed"
               /\ Untouched(s)

\* an invalid file was refused while an earlier import's chunks were stored
C1_Witness ==
    /\ sess[1].failedAt = "validate"
    /\ InvalidFile(sess[1].file.val)
    /\ chunkStore # EmptyStore

C3_QuotaFailure ==
    \A s \in Sessions :
        (sess[s].quotaResult.def /\ ~sess[s].quotaResult.val.hasQuota)
            => LET r == sess[s].quotaResult.val
               IN  /\ sess[s].pc = "failed"
                   /\ sess[s].failedAt = "quota"
                   /\ Untouched(s)
                   /\ modelStatus.verificationStatus = "failed"
                   /\ modelStatus.error.def
                   /\ modelStatus.error.val.text = STORAGE_QUOTA_EXCEEDED
                   /\ modelStatus.error.val.availableGB.def
                   /\ IsFloorGiB(modelStatus.error.val.availableGB.val,
                                 BSub(r.quota, r.usage))

\* usage = quota - 1 GiB is reported as 1 GB, over a store that holds chunks
C3_Witness ==
    /\ sess[1].failedAt = "quota"
    /\ BAdd(sess[1].quotaResult.val.usage, Bytes(1024, 0)) = sess[1].quotaResult.val.quota
    /\ modelStatus.error.val.availableGB = Def(1)
    /\ chunkStore # EmptyStore

C5_AdmissionCoversFile ==
    \A s \in Sessions :
        (sess[s].pc = "clear" /\ sess[s].plat.val.kind = "estimate")
            => BLess(BAdd(sess[s].file.val.size, Bytes(2048, 0)),
                     FreeOf(sess[s].plat.val))

\* C6: without a storage-estimate API, or when the estimate rejects,
\* checkStorageQuota returns {hasQuota: false, usage: 0, quota: 0}, and the
\* import of a valid file ends Failed for quota with the chunk store untouched.
C6_QuotaFailsClosed ==
    \A s \in Sessions :
        (sess[s].plat.def /\ sess[s].plat.val.kind \in {"noapi", "rejects"})
            => /\ sess[s].quotaResult.val =
                      [hasQuota |-> FALSE, usage |-> Zero, quota |-> Zero]
               /\ sess[s].pc = "failed"
               /\ sess[s].failedAt = "quota"
               /\ ~InvalidFile(sess[s].file.val)
               /\ Untouched(s)
               /\ modelStatus.error = Def(QuotaMessage(0))

\* the estimate rejected, and the import failed for quota
C6_Witness ==
    /\ sess[1].plat = Def(Rejects)
    /\ sess[1].failedAt = "quota"
    /\ chunkStore # EmptyStore

\* the storeModelChunk calls of a session, in the order made
Puts(s) == SelectSeq(sess[s].ops, LAMBDA o : o.op = "put")

\* the write loop of session s has exited normally
Written(s) == sess[s].pc \in {"hash", "finish", "completed"}

\* chunks, read in order, are the bytes 0..size-1 of the file's stream, each
\* chunk starting where the one before it ends
Tiles(chunks, file) ==
    /\ Len(chunks) >= 1
    /\ \A i \in 1..Len(chunks) :
        /\ Len(chunks[i]) = 1
        /\ chunks[i][1].src = file.content
        /\ BLess(chunks[i][1].from, chunks[i][1].to)
        /\ chunks[i][1].from = (IF i = 1 THEN Zero ELSE chunks[i - 1][1].to)
        /\ i = Len(chunks) => chunks[i][1].to = file.size

\* C7: once the write phase of an import has completed, the chunk store read
\* back in ascending offset order concatenates to exactly the file's bytes:
\* no gap, no overlap, no missing and no extra chunk.
C7_RoundTrip ==
    \A s \in Sessions :
        Written(s) =>
            /\ Tiles(getAll(chunkStore), sess[s].file.val)
            /\ ArrayBuffer(NewBlob(getAll(chunkStore)))
                   = <<[src |-> sess[s].file.val.content, from |-> Zero,
                        to |-> sess[s].file.val.size]>>
            /\ \A k \in DOMAIN chunkStore : chunkStore[k][1].from = k

\* a file whose length is no multiple of the chunk size was written over the
\* chunks of a longer import
C7_Witness ==
    /\ sess[1].pc = "hash"
    /\ sess[1].file.val.size = Bytes(100, 0)
    /\ Bytes(112, 0) \in DOMAIN sess[1].storeAtStart

\* C8: the write phase puts at offsets 0, C, 2C, ... below file.size, in
\* that order (C = 16 MiB); each chunk is 1..C bytes long and only the last may
\* be shorter than C; offset is the sum of the lengths written, stays within
\* 0..file.size, and the loop exits exactly when offset = file.size.
C8_WriteLoop ==
    \A s \in Sessions :
        sess[s].pc \in {"put", "afterPut", "hash", "finish", "completed"} =>
            LET size == sess[s].file.val.size
                puts == Puts(s)
                n == Len(puts)
                written == IF n = 0 THEN Zero
                           ELSE BAdd(puts[n].offset, puts[n].size)
            IN  /\ BLeq(Zero, sess[s].offset) /\ BLeq(sess[s].offset, size)
                /\ \A i \in 1..n :
                    /\ puts[i].offset = Bytes(16 * (i - 1), 0)
                    /\ BLess(puts[i].offset, size)
                    /\ BLess(Zero, puts[i].size)
                    /\ BLeq(puts[i].size, Bytes(16, 0))
                    /\ puts[i].size # Bytes(16, 0)
                           => BAdd(puts[i].offset, puts[i].size) = size
                /\ sess[s].pc = "afterPut"
                       => BAdd(sess[s].offset, puts[n].size) = written
                /\ sess[s].pc # "afterPut" => sess[s].offset = written
                /\ sess[s].pc = "put" => BLess(sess[s].offset, size)
                /\ Written(s) => sess[s].offset = size

\* nine chunks were written, the last of one byte
C8_Witness ==
    /\ sess[1].pc = "hash"
    /\ Len(Puts(1)) = 9
    /\ Puts(1)[9].size = Bytes(0, 1)

\* C9: two completed imports of files with the same bytes record the same
\* sha256, whatever the files' names and whatever the chunk store held before
\* either import.
C9_DigestDeterminism ==
    \A c1, c2 \in completions :
        (c1.file.content = c2.file.content /\ c1.file.size = c2.file.size)
            => c1.sha256 = c2.sha256

\* the same bytes were imported under two names, the second time over the
\* chunks a longer import had left
C9_Witness ==
    /\ sess[1].pc = "completed"
    /\ Bytes(112, 0) \in DOMAIN sess[1].storeAtStart
    /\ \E c \in completions :
        /\ c.file.name # sess[1].file.val.name
        /\ c.file.content = sess[1].file.val.content
        /\ c.file.size = sess[1].file.val.size
        /\ Def(c.sha256) = sess[1].sha256

\* C10: the update that completes an import records 'verified' when the
\* digest it computed is a key of KNOWN_MODEL_HASHES and 'unverified' when it
\* is not; an unknown digest gives neither 'failed' nor an error.
C10_Classification ==
    [][\A s \in Sessions :
        (sess[s].pc = "finish" /\ sess'[s].pc = "completed") =>
            LET digest == sess[s].sha256.val
                known == \E h \in DOMAIN KNOWN_MODEL_HASHES : h = digest
            IN  /\ modelStatus'.isImported
                /\ modelStatus'.sha256 = Def(digest)
                /\ modelStatus'.error = Undefined
                /\ known => modelStatus'.verificationStatus = "verified"
                /\ ~known => modelStatus'.verificationStatus = "unverified"]_vars

\* an import completed as verified: what it hashed was the registry's digest
C10_Witness ==
    /\ sess[1].pc = "completed"
    /\ modelStatus.sha256 = sess[1].sha256
    /\ modelStatus.verificationStatus = "verified"

----------------------------------------------------------------------------
\* Progress values compared: scale * num / den, without the division.

\* k * x
BScale(x, k) == Bytes(x.mib * k + (x.b * k) \div MiB, (x.b * k) % MiB)

\* x <= y for two progress values that share a denominator, or of which one
\* is a plain percentage
PLeq(x, y) ==
    IF x.den = y.den
    THEN BLeq(BScale(x.num, x.scale), BScale(y.num, y.scale))
    ELSE IF x.num = x.den
    THEN BLeq(BScale(y.den, x.scale), BScale(y.num, y.scale))
    ELSE /\ y.num = y.den
         /\ BLeq(BScale(x.num, x.scale), BScale(x.den, y.scale))

NonDecreasing(log) == \A i \in 1..(Len(log) - 1) : PLeq(log[i], log[i + 1])

\* C11: the importProgress values written by a call of importModel that
\* completed are in non-decreasing order, each is between 0 and 100, and the
\* last one is 100, which is the value the status then shows.
C11_MonotonicProgress ==
    sess[1].pc = "completed" =>
        LET log == sess[1].progress
        IN  /\ Len(log) >= 1
            /\ NonDecreasing(log)
            /\ \A i \in 1..Len(log) :
                   PLeq(Percent(0), log[i]) /\ PLeq(log[i], Percent(100))
            /\ log[Len(log)] = Percent(100)
            /\ modelStatus.importProgress = Percent(100)

\* a completed import of nine chunks, the last of one byte: the log holds
\* the 0 of the reset, nine chunk values, 90 and 100
C11_Witness ==
    /\ sess[1].pc = "completed"
    /\ Len(sess[1].progress) = 12
    /\ sess[1].progress[10] = ChunkProgress(Bytes(128, 1), Bytes(128, 1))
    /\ ~PLeq(sess[1].progress[10], sess[1].progress[9])

----------------------------------------------------------------------------
\* The record of the last completed import, and resetModel.

RecordFields == {"isImported", "fileName", "fileSize", "sha256"}

\* C12: when an import fails while the status holds the record of an earlier
\* completed import, the record's isImported, fileName, fileSize, sha256 and
\* verificationStatus are what they were before the failed call.
C12_FailureKeepsRecord ==
    (sess[1].pc = "failed" /\ sess[1].statusAtStart.isImported) =>
        /\ \A f \in RecordFields : modelStatus[f] = sess[1].statusAtStart[f]
        /\ modelStatus.verificationStatus = sess[1].statusAtStart.verificationStatus

\* C13: whenever isImported holds, fileName, fileSize and sha256 are defined
\* and are those of one completed import, and verificationStatus is the
\* classification of that import's digest.
C13_RecordIsOneImport ==
    modelStatus.isImported =>
        \E c \in completions :
            /\ modelStatus.fileName = Def(c.file.name)
            /\ modelStatus.fileSize = Def(c.file.size)
            /\ modelStatus.sha256 = Def(c.sha256)
            /\ modelStatus.verificationStatus = Classify(c.sha256)

\* the step on which resetModel returns
ResetReturns == reset.pc = "deleting" /\ reset'.pc = "idle"

\* C14: when resetModel returns, the status holds no record (isImported
\* false; fileName, fileSize, sha256 undefined), the 'model' entry is gone
\* and the chunk store is empty.
C14_ResetClearsChunks ==
    [][ResetReturns =>
        /\ ~modelStatus'.isImported
        /\ modelStatus'.fileName = Undefined
        /\ modelStatus'.fileSize = Undefined
        /\ modelStatus'.sha256 = Undefined
        /\ modelEntry' = Undefined
        /\ chunkStore' = EmptyStore]_vars

\* C15: resetModel never fails and is idempotent: when it returns, its
\* promise is fulfilled and the status has its initial values, also when
\* deleteModel threw; applied to the state a reset leaves, or to a state with
\* no model and no chunk, it changes nothing.
C15_ResetIdempotent ==
    [][ResetReturns =>
        /\ reset'.settled = "fulfilled"
        /\ modelStatus' = InitialStatus
        /\ modelEntry' = Undefined
        /\ (modelStatus = InitialStatus /\ modelEntry = Undefined) =>
              /\ modelStatus' = modelStatus
              /\ modelEntry' = modelEntry
              /\ chunkStore' = chunkStore]_vars

\* two resets have returned after a completed import, deleteModel having
\* thrown in one of them, and the status is the initial one
C15_Witness ==
    /\ reset.pc = "idle"
    /\ reset.calls = 2
    /\ reset.swallowed = 1
    /\ reset.settled = "fulfilled"
    /\ sess[1].pc = "completed"
    /\ modelStatus = InitialStatus

----------------------------------------------------------------------------
\* Failed imports.

Failed(s) == sess[s].pc = "failed"

OffsetsBelow(k) ==
    { Bytes(CHUNK_SIZE.mib * i, 0) : i \in 0..((k.mib \div CHUNK_SIZE.mib) - 1) }

\* C17: when storeModelChunk throws at offset k, the import ends Failed and
\* rejected, isImported, fileName, fileSize and sha256 are what they were
\* when the call began, no digest was computed, and the chunk store holds the
\* chunks of this file at the offsets below k and nothing else.
C17_PartialChunksStay ==
    (Failed(1) /\ sess[1].failedAt = "put") =>
        LET k == sess[1].offset
            file == sess[1].file.val
        IN  /\ sess[1].promise = "rejected"
            /\ modelStatus.verificationStatus = "failed"
            /\ \A f \in RecordFields : modelStatus[f] = sess[1].statusAtStart[f]
            /\ sess[1].sha256 = Undefined
            /\ k.b = 0 /\ k.mib % CHUNK_SIZE.mib = 0 /\ BLess(k, file.size)
            /\ DOMAIN chunkStore = OffsetsBelow(k)
            /\ \A o \in DOMAIN chunkStore :
                   chunkStore[o] = Slice(file, o, BAdd(o, CHUNK_SIZE))

\* the write at offset 32 MiB threw, in an import begun over the record and
\* the longer chunk store of a completed one
C17_Witness ==
    /\ Failed(1)
    /\ sess[1].failedAt = "put"
    /\ sess[1].offset = Bytes(32, 0)
    /\ sess[1].statusAtStart.isImported
    /\ DOMAIN chunkStore = {Zero, Bytes(16, 0)}
    /\ Bytes(96, 0) \in DOMAIN sess[1].storeAtStart

\* C18: a failure of importModel at any stage rejects the promise and leaves
\* a reason in modelStatus.error with verificationStatus 'failed'; and
\* through imports and resets error is defined exactly when
\* verificationStatus is 'failed'.
C18_FailuresSurface ==
    /\ [](modelStatus.error.def <=> modelStatus.verificationStatus = "failed")
    /\ [][(sess'[1] # sess[1] /\ sess'[1].pc = "failed") =>
            /\ sess'[1].promise = "rejected"
            /\ modelStatus'.error.def
            /\ modelStatus'.error.val.text # ""
            /\ modelStatus'.verificationStatus = "failed"]_vars

\* getAll threw while hashing, after a reset had been made
C18_Witness ==
    /\ Failed(1)
    /\ sess[1].failedAt = "hash"
    /\ sess[1].promise = "rejected"
    /\ modelStatus.error = Def(Message(STORAGE_FAILURE))
    /\ reset.calls = 1

\* C19: an import of a valid file that passed the quota check, begun in the
\* state a failed import left (no reset in between), runs to completion with
\* the digest of that file's bytes alone, unless a storage operation fails.
C19_Recoverable ==
    (sess[1].pc = "clear" /\ sess[1].prev # "none")
        ~> \/ /\ sess[1].pc = "completed"
              /\ sess[1].prev # "none"
              /\ sess[1].sha256 = Def(SHA256(ArrayBuffer(FileBlob(sess[1].file.val))))
              /\ modelStatus.isImported
              /\ modelStatus.fileName = Def(sess[1].file.val.name)
              /\ modelStatus.sha256 = sess[1].sha256
           \/ /\ Failed(1)
              /\ sess[1].prev # "none"
              /\ sess[1].failedAt \in {"clear", "put", "hash"}

\* completed after an import whose write at a later offset had thrown and
\* left its chunks in the store
C19_Witness ==
    /\ sess[1].pc = "completed"
    /\ sess[1].prev = "put"
    /\ sess[1].statusAtStart.verificationStatus = "failed"
    /\ Bytes(112, 0) \in DOMAIN sess[1].storeAtStart
    /\ sess[1].file.val.size = Bytes(100, 0)
    /\ sess[1].sha256 = Def(SHA256(ArrayBuffer(FileBlob(sess[1].file.val))))

----------------------------------------------------------------------------
\* Selecting a file in ModelImport.

\* C20: a valid file chosen by the file input or by drag-and-drop is left
\* unselected when the status holds a record (isImported) whose fileName and
\* fileSize are the file's, and is selected when the file's name or size
\* differs from the status's.
C20_ReimportDetection ==
    ui.last.def =>
        LET e == ui.last.val
            same == /\ e.status.isImported
                    /\ e.status.fileName = Def(e.file.name)
                    /\ e.status.fileSize = Def(e.file.size)
        IN  ~InvalidFile(e.file) => (e.selected <=> ~same)

----------------------------------------------------------------------------
\* The stored model.

\* C21: once an import has completed, and until the next import or reset,
\* the 'model' entry of the model store holds the recorded digest, so that
\* verifyModel() returns true.
C21_StoredModelVerifies ==
    sess[1].pc = "completed" =>
        /\ modelEntry.def
        /\ Def(modelEntry.val.metadata.sha256) = modelStatus.sha256
        /\ verifyModel(modelStatus, modelEntry)


\* C22: the success toast of handleImport reports the import that has just
\* completed: it names the known model exactly when that import's digest is
\* a key of KNOWN_MODEL_HASHES, and is the unverified message otherwise,
\* whatever the status was when the import was started.
C22_ToastReportsImport ==
    \A s \in Sessions :
        sess[s].pc = "completed" =>
            LET known == sess[s].sha256.val \in DOMAIN KNOWN_MODEL_HASHES
                toast == sess[s].toast.val
            IN  /\ sess[s].toast.def
                /\ known => /\ toast.description = "Model verified: "
                            /\ toast.model =
                                 Def(KNOWN_MODEL_HASHES[sess[s].sha256.val].name)
                /\ ~known => /\ toast.description = IMPORT_UNVERIFIED
                             /\ toast.model = Undefined

----------------------------------------------------------------------------
\* The values of importProgress.

\* x < y
PLess(x, y) == ~PLeq(y, x)

----------------------------------------------------------------------------
\* The phases of one call.

\* the positions a call may move to from pc
AllowedNext(pc) ==
    CASE pc = "quota"    -> {"clear", "failed"}
      [] pc = "clear"    -> {"put", "failed"}
      [] pc = "put"      -> {"afterPut", "failed"}
      [] pc = "afterPut" -> {"put", "hash"}
      [] pc = "hash"     -> {"finish", "failed"}
      [] pc = "finish"   -> {"completed"}
      [] OTHER           -> {}

----------------------------------------------------------------------------
\* Whose chunks the store holds.

\* the call has cleared the store and has not ended in clearChunks itself
InOrAfterWritePhase(s) ==
    \/ sess[s].pc \in {"put", "afterPut", "hash", "finish", "completed"}
    \/ Failed(s) /\ sess[s].failedAt \in {"put", "hash"}

\* C25: when imports do not overlap, during and after the write phase of a
\* call every chunk in the store was written by that call: the keys are
\* 0, C, 2C, ... up to the call's offset, each holding that slice of the
\* call's file, whatever earlier calls had left.
C25_OneImportsChunks ==
    InOrAfterWritePhase(1) =>
        LET puts == Puts(1)
            file == sess[1].file.val
        IN  /\ DOMAIN chunkStore = { puts[i].offset : i \in 1..Len(puts) }
            /\ \A i \in 1..Len(puts) :
                  /\ puts[i].offset = Bytes(CHUNK_SIZE.mib * (i - 1), 0)
                  /\ chunkStore[puts[i].offset]
                        = Slice(file, puts[i].offset, BAdd(puts[i].offset, CHUNK_SIZE))
                  /\ IF sess[1].pc = "afterPut" /\ i = Len(puts)
                     THEN puts[i].offset = sess[1].offset
                     ELSE BLess(puts[i].offset, sess[1].offset)

\* the second write of a call made over the chunks of a longer file
C25_Witness ==
    /\ sess[1].pc = "afterPut"
    /\ sess[1].offset = Bytes(16, 0)
    /\ Bytes(128, 0) \in DOMAIN sess[1].storeAtStart
    /\ DOMAIN chunkStore = {Zero, Bytes(16, 0)}
    /\ sess[1].file.val.content # sess[1].storeAtStart[Zero][1].src

----------------------------------------------------------------------------
\* Termination.

Terminal(s) == sess[s].pc \in {"completed", "failed"}

\* ceil(size / CHUNK_SIZE)
ChunksOf(size) ==
    (size.mib + (IF size.b > 0 THEN 1 ELSE 0) + CHUNK_SIZE.mib - 1) \div CHUNK_SIZE.mib

\* C26: the storage operations settling, every call of importModel ends,
\* either Completed (promise fulfilled) or Failed (promise rejected) and
\* never both, and its outcome stays; the write loop of a valid file makes
\* exactly ceil(file.size / C) chunk writes.
C26_Termination ==
    /\ Running(1) ~> Terminal(1)
    /\ [](sess[1].pc = "completed" =>
            sess[1].promise = "fulfilled" /\ sess[1].failedAt = "none")
    /\ [](sess[1].pc = "failed" =>
            sess[1].promise = "rejected" /\ sess[1].failedAt # "none")
    /\ [](Running(1) => sess[1].promise = "pending")
    /\ [](Written(1) => Len(Puts(1)) = ChunksOf(sess[1].file.val.size))
    /\ [][Terminal(1) /\ imports' = imports => sess'[1] = sess[1]]_vars

\* a call of nine writes, the last of one byte, has completed
C26_Witness ==
    /\ sess[1].pc = "completed"
    /\ sess[1].promise = "fulfilled"
    /\ sess[1].file.val.size = Bytes(128, 1)
    /\ Len(Puts(1)) = 9
    /\ ChunksOf(sess[1].file.val.size) = 9

----------------------------------------------------------------------------
\* Overlapping calls.

DigestOfFile(file) == SHA256(ArrayBuffer(FileBlob(file)))

\* C27: however two calls interleave at their await points, a call that
\* completes has recorded the digest of its own file's full content, never
\* that of an empty set, a subset or a mixture.
C27_OwnDigestAlways ==
    \A s \in Sessions :
        sess[s].pc = "completed" =>
            sess[s].sha256 = Def(DigestOfFile(sess[s].file.val))

\* C28: once a resetModel made between two chunk writes of an importModel
\* call has returned, and until a new import is started, no record of that
\* call exists (isImported false, sha256 undefined) and the chunk store is
\* empty.
C28_ResetAborts ==
    (/\ reset.interrupts = imports
     /\ reset.interrupts > 0
     /\ reset.pc = "idle"
     /\ reset.settled = "fulfilled")
    => /\ ~modelStatus.isImported
       /\ modelStatus.sha256 = Undefined
       /\ chunkStore = EmptyStore

----------------------------------------------------------------------------
\* App's readiness flag.

ModelReady(status) == status.isImported /\ status.verificationStatus # "failed"

----------------------------------------------------------------------------
\* The Ollama flags.

\* C30: isConnected is true only if a testConnection made against the
\* serverUrl now configured has succeeded since the configuration was last
\* set, also when updateConfig is called while a request is in flight.
C30_ConnectedIsCurrent ==
    ollama.status.isConnected => ollama.status.serverUrl \in ollama.passed

====
